---- MODULE Spec2Model ----
(***************************************************************************)
(* A model of gobjects: genomic interval records (Interval, Bed6, Bed12,   *)
(* Gtf), their comparison operators, the intersect dispatcher of           *)
(* operations/intersect.py and the binned IntervalMap of                   *)
(* core/intervalmap.py.                                                    *)
(*                                                                         *)
(* Chromosome labels are sequences of one-character strings, so that       *)
(* prep_chrom_comp() can be modelled by what it does (split into digit and *)
(* non-digit runs, recode each run).                                       *)
(***************************************************************************)
EXTENDS Integers, Sequences, FiniteSets, TLC

VARIABLES pc, a_obj, b_obj, c_obj, cmp, res,
          interval_list, interval_list_sorted, binCount, subnodes, map,
          query, hits,
          snapshot, list2, map2, chromA, chromB, keycmp, pairs, attributes, attr_dict

vars == <<pc, a_obj, b_obj, c_obj, cmp, res,
          interval_list, interval_list_sorted, binCount, subnodes, map,
          query, hits,
          snapshot, list2, map2, chromA, chromB, keycmp, pairs, attributes, attr_dict>>

\* the variables of the second build, of the key experiments and of the
\* attribute experiments
rebuildVars == <<list2, map2>>
keyVars == <<chromA, chromB, keycmp>>
attrVars == <<pairs, attributes, attr_dict>>

(***************************************************************************)
(* Bounds of the model.                                                    *)
(***************************************************************************)
\* largest coordinate (chromStart, chromEnd) of a record
MaxCoord == 2
\* largest number of records in the collection handed to IntervalMap
MaxRecs == 3
\* largest requested number of bins (the subnodes argument)
MaxSubnodes == 3

(***************************************************************************)
(* Characters and strings.                                                 *)
(***************************************************************************)
\* code points of the characters used in labels (Python compares str by these);
\* "U+0663" stands for the one character ARABIC-INDIC DIGIT THREE
Ord(ch) ==
    CASE ch = "U+0663" -> 1635
      [] ch = "0" -> 48 [] ch = "1" -> 49 [] ch = "2" -> 50
      [] ch = "C" -> 67 [] ch = "H" -> 72 [] ch = "R" -> 82
      [] ch = "X" -> 88 [] ch = "Y" -> 89
      [] ch = "c" -> 99 [] ch = "h" -> 104 [] ch = "r" -> 114
      [] ch = "x" -> 120 [] ch = "y" -> 121

\* the character class [0-9] of the regular expression in prep_chrom_comp
ReDigit(ch) == ch \in {"0", "1", "2"}

\* str.isdigit() on one character
IsDigitChar(ch) == ch \in {"0", "1", "2", "U+0663"}

\* int() of one digit character
DigitVal(ch) ==
    CASE ch = "0" -> 0 [] ch = "1" -> 1 [] ch = "2" -> 2 [] ch = "U+0663" -> 3

\* str.lower() on one character
LowerChar(ch) ==
    CASE ch = "C" -> "c" [] ch = "H" -> "h" [] ch = "R" -> "r"
      [] ch = "X" -> "x" [] ch = "Y" -> "y" [] OTHER -> ch

\* str.lower()
Lower(s) == [i \in 1..Len(s) |-> LowerChar(s[i])]

\* str.isdigit(): non-empty and every character a digit
IsDigitStr(s) == Len(s) > 0 /\ \A i \in 1..Len(s) : IsDigitChar(s[i])

\* int() of a digit string
RECURSIVE IntOf(_)
IntOf(s) ==
    IF Len(s) = 0 THEN 0
    ELSE 10 * IntOf(SubSeq(s, 1, Len(s) - 1)) + DigitVal(s[Len(s)])

\* Python's str < str : lexicographic by code point, a proper prefix is less
RECURSIVE StrLt(_, _)
StrLt(s, t) ==
    IF Len(t) = 0 THEN FALSE
    ELSE IF Len(s) = 0 THEN TRUE
    ELSE IF Ord(s[1]) # Ord(t[1]) THEN Ord(s[1]) < Ord(t[1])
    ELSE StrLt(Tail(s), Tail(t))

(***************************************************************************)
(* prep_chrom_comp: the chromosome ordering key.                           *)
(***************************************************************************)
\* length of the longest prefix of s made of [0-9] (dig) or of other characters
RECURSIVE RunLen(_, _)
RunLen(s, dig) ==
    IF Len(s) = 0 \/ ReDigit(s[1]) # dig THEN 0
    ELSE 1 + RunLen(Tail(s), dig)

\* re.split('([0-9]+)', chrom): text, digits, text, ..., text (text may be empty)
RECURSIVE re_split(_)
re_split(s) ==
    LET n == RunLen(s, FALSE)
        rest == SubSeq(s, n + 1, Len(s))
        m == RunLen(rest, TRUE)
    IN  IF Len(rest) = 0 THEN <<SubSeq(s, 1, n)>>
        ELSE <<SubSeq(s, 1, n), SubSeq(rest, 1, m)>>
             \o re_split(SubSeq(rest, m + 1, Len(rest)))

\* a variant of recode that keeps digit runs as text
recode_NoInt(substr) ==
    [num |-> FALSE, val |-> 0, txt |-> Lower(substr)]

\* recode: int(substr) if substr.isdigit() else substr.lower()
recode(substr) ==
    IF IsDigitStr(substr) THEN [num |-> TRUE, val |-> IntOf(substr), txt |-> <<>>]
    ELSE [num |-> FALSE, val |-> 0, txt |-> Lower(substr)]

prep_chrom_comp(chrom) ==
    LET parts == re_split(chrom)
    IN  [i \in 1..Len(parts) |-> recode(parts[i])]

\* token < token for tokens of one type (int < int, str < str)
TokLt(s, t) ==
    IF s.num /\ t.num THEN s.val < t.val
    ELSE IF ~s.num /\ ~t.num THEN StrLt(s.txt, t.txt)
    ELSE FALSE

\* Python's list < list : the first position where the items differ decides,
\* otherwise the shorter list is less
RECURSIVE ListLt(_, _)
ListLt(x, y) ==
    IF Len(y) = 0 THEN FALSE
    ELSE IF Len(x) = 0 THEN TRUE
    ELSE IF x[1] # y[1] THEN TokLt(x[1], y[1])
    ELSE ListLt(Tail(x), Tail(y))

\* list < list raises TypeError when the first items that differ are an int
\* and a str (list > list raises on the same pairs)
RECURSIVE ListLtRaises(_, _)
ListLtRaises(x, y) ==
    IF Len(x) = 0 \/ Len(y) = 0 THEN FALSE
    ELSE IF x[1] # y[1] THEN x[1].num # y[1].num
    ELSE ListLtRaises(Tail(x), Tail(y))

\* operator.lt and operator.gt as applied to the two keys
lt(x, y) == ListLt(x, y)
gt(x, y) == ListLt(y, x)

(***************************************************************************)
(* Records.  A record carries the attributes the constructors set; an      *)
(* Interval has no strand attribute (strand "none" stands for its absence).*)
(***************************************************************************)
\* Interval.__post_init__
Interval(chrom, chromStart, chromEnd) ==
    [kind |-> "Interval", chrom |-> chrom,
     chromStart |-> chromStart, chromEnd |-> chromEnd, strand |-> "none",
     zero_idx_start |-> chromStart, zero_idx_end |-> chromEnd - 1]

\* Bed6.__post_init__
Bed6(chrom, chromStart, chromEnd, strand) ==
    [kind |-> "Bed6", chrom |-> chrom,
     chromStart |-> chromStart, chromEnd |-> chromEnd, strand |-> strand,
     zero_idx_start |-> chromStart, zero_idx_end |-> chromEnd - 1]

\* Bed12 inherits Bed6.__post_init__
Bed12(chrom, chromStart, chromEnd, strand) ==
    [kind |-> "Bed12", chrom |-> chrom,
     chromStart |-> chromStart, chromEnd |-> chromEnd, strand |-> strand,
     zero_idx_start |-> chromStart, zero_idx_end |-> chromEnd - 1]

\* Gtf.__post_init__ (1-based, inclusive)
Gtf(chrom, chromStart, chromEnd, strand) ==
    [kind |-> "Gtf", chrom |-> chrom,
     chromStart |-> chromStart, chromEnd |-> chromEnd, strand |-> strand,
     zero_idx_start |-> chromStart - 1, zero_idx_end |-> chromEnd - 1]

\* hasattr(gobj, "strand")
HasStrand(gobj) == gobj.kind # "Interval"

\* class Bed6(Interval), class Bed12(Bed6): k is a proper subclass of base
ProperSubclass(k, base) ==
    \/ k = "Bed6" /\ base = "Interval"
    \/ k = "Bed12" /\ base \in {"Interval", "Bed6"}

(***************************************************************************)
(* Comparison methods of Interval (inherited by Bed6, Bed12) and of Gtf.   *)
(***************************************************************************)
Interval_eq(self, other) ==
    /\ self.chrom = other.chrom
    /\ self.chromStart = other.chromStart
    /\ self.chromEnd = other.chromEnd

\* a variant of Interval_lt that forgets the "chromosome is greater" branch
Interval_lt_NoGtBranch(self, other) ==
    IF lt(prep_chrom_comp(self.chrom), prep_chrom_comp(other.chrom)) THEN TRUE
    ELSE \/ self.chromStart < other.chromStart
         \/ /\ self.chromStart = other.chromStart
            /\ self.chromEnd < other.chromEnd

Interval_lt(self, other) ==
    IF lt(prep_chrom_comp(self.chrom), prep_chrom_comp(other.chrom)) THEN TRUE
    ELSE IF gt(prep_chrom_comp(self.chrom), prep_chrom_comp(other.chrom)) THEN FALSE
    ELSE \/ self.chromStart < other.chromStart
         \/ /\ self.chromStart = other.chromStart
            /\ self.chromEnd < other.chromEnd

Interval_gt(self, other) ==
    IF lt(prep_chrom_comp(self.chrom), prep_chrom_comp(other.chrom)) THEN FALSE
    ELSE IF gt(prep_chrom_comp(self.chrom), prep_chrom_comp(other.chrom)) THEN TRUE
    ELSE \/ self.chromStart > other.chromStart
         \/ /\ self.chromEnd = other.chromEnd
            /\ self.chromStart > other.chromStart

Gtf_eq(self, other) ==
    /\ self.chrom = other.chrom
    /\ self.chromStart = other.chromStart
    /\ self.chromEnd = other.chromEnd

Gtf_lt(self, other) ==
    IF lt(prep_chrom_comp(self.chrom), prep_chrom_comp(other.chrom)) THEN TRUE
    ELSE IF gt(prep_chrom_comp(self.chrom), prep_chrom_comp(other.chrom)) THEN FALSE
    ELSE \/ self.chromStart < other.chromStart
         \/ /\ self.chromStart = other.chromStart
            /\ self.chromEnd < other.chromEnd

Gtf_gt(self, other) ==
    IF lt(prep_chrom_comp(self.chrom), prep_chrom_comp(other.chrom)) THEN FALSE
    ELSE IF gt(prep_chrom_comp(self.chrom), prep_chrom_comp(other.chrom)) THEN TRUE
    ELSE \/ self.chromStart > other.chromStart
         \/ /\ self.chromEnd = other.chromEnd
            /\ self.chromStart > other.chromStart

\* the method a record's class provides
Method_eq(self, other) ==
    IF self.kind = "Gtf" THEN Gtf_eq(self, other) ELSE Interval_eq(self, other)
Method_lt(self, other) ==
    IF self.kind = "Gtf" THEN Gtf_lt(self, other) ELSE Interval_lt(self, other)
Method_gt(self, other) ==
    IF self.kind = "Gtf" THEN Gtf_gt(self, other) ELSE Interval_gt(self, other)

\* The operators x == y, x < y, x > y.  Python calls the reflected method of
\* the right operand first when its class is a proper subclass of the left
\* operand's class; the methods above always return a boolean, so the first
\* method called decides.
OpEq(x, y) ==
    IF ProperSubclass(y.kind, x.kind) THEN Method_eq(y, x) ELSE Method_eq(x, y)
OpLt(x, y) ==
    IF ProperSubclass(y.kind, x.kind) THEN Method_gt(y, x) ELSE Method_lt(x, y)
OpGt(x, y) ==
    IF ProperSubclass(y.kind, x.kind) THEN Method_lt(y, x) ELSE Method_gt(x, y)

(***************************************************************************)
(* Input domains.                                                          *)
(***************************************************************************)
chr1 == <<"c", "h", "r", "1">>
CHR1 == <<"C", "H", "R", "1">>
chr2 == <<"c", "h", "r", "2">>
chr10 == <<"c", "h", "r", "1", "0">>

\* labels of the comparison experiments
OrdChroms == {chr1, CHR1, chr2, chr10}
\* labels of the intersect and index experiments
Chroms == {chr1, chr2}
Strands == {"+", "-"}

\* half-open [start, end) with 0 <= start < end <= MaxCoord
BedSpans == {p \in (0..MaxCoord) \X (0..MaxCoord) : p[1] < p[2]}
\* inclusive [start, end] with 1 <= start <= end <= MaxCoord
GtfSpans == {p \in (1..MaxCoord) \X (1..MaxCoord) : p[1] <= p[2]}

Intervals(chroms) == {Interval(ch, p[1], p[2]) : ch \in chroms, p \in BedSpans}
Bed6s(chroms) ==
    UNION {{Bed6(ch, p[1], p[2], s) : ch \in chroms, p \in BedSpans} : s \in Strands}
Bed12s(chroms) ==
    UNION {{Bed12(ch, p[1], p[2], s) : ch \in chroms, p \in BedSpans} : s \in Strands}
Gtfs(chroms) ==
    UNION {{Gtf(ch, p[1], p[2], s) : ch \in chroms, p \in GtfSpans} : s \in Strands}

\* operands of the comparison experiments: the Interval family (strand is not
\* compared, one strand suffices)
OrdRecs ==
    Intervals(OrdChroms)
    \cup {Bed6(ch, p[1], p[2], "+") : ch \in OrdChroms, p \in BedSpans}
    \cup {Bed12(ch, p[1], p[2], "+") : ch \in OrdChroms, p \in BedSpans}

NoRec == Interval(chr1, 0, 1)
NoCmp == [lt |-> FALSE, eq |-> FALSE, gt |-> FALSE]
NoHits == [err |-> "None", recs |-> <<>>]
NoCmps == [ab |-> NoCmp, bc |-> NoCmp, ac |-> NoCmp, ba |-> NoCmp]
NoKeys == [keyA |-> <<>>, keyB |-> <<>>, lt |-> FALSE, gt |-> FALSE,
           eq |-> FALSE, raises |-> FALSE]
NoDict == [err |-> "None", items |-> <<>>]

\* the values of the variables an experiment does not use
IdleRebuild == snapshot = <<>> /\ list2 = <<>> /\ map2 = <<>>
IdleKey == chromA = <<>> /\ chromB = <<>> /\ keycmp = NoKeys
IdleAttr == pairs = <<>> /\ attributes = <<>> /\ attr_dict = NoDict

(***************************************************************************)
(* Comparison experiments: three records are constructed, then compared    *)
(* pairwise with ==, < and >.                                              *)
(***************************************************************************)
Compare3(x, y) == [lt |-> OpLt(x, y), eq |-> OpEq(x, y), gt |-> OpGt(x, y)]

InitOrd ==
    /\ pc = "constructed"
    /\ a_obj \in OrdRecs /\ b_obj \in OrdRecs /\ c_obj \in OrdRecs
    /\ cmp = NoCmps
    /\ res = <<>>
    /\ interval_list = <<>> /\ interval_list_sorted = FALSE
    /\ binCount = 0 /\ subnodes = 0 /\ map = <<>>
    /\ query = NoRec /\ hits = NoHits
    /\ IdleRebuild /\ IdleKey /\ IdleAttr

Compare ==
    /\ pc = "constructed"
    /\ pc' = "compared"
    /\ cmp' = [ab |-> Compare3(a_obj, b_obj),
               bc |-> Compare3(b_obj, c_obj),
               ac |-> Compare3(a_obj, c_obj),
               ba |-> Compare3(b_obj, a_obj)]
    /\ UNCHANGED <<a_obj, b_obj, c_obj, res, interval_list,
                   interval_list_sorted, binCount, subnodes, map, query, hits>>
    /\ UNCHANGED <<snapshot, rebuildVars, keyVars, attrVars>>

NextOrd == Compare

SpecOrd == InitOrd /\ [][NextOrd]_vars

\* number of TRUE among three booleans
CountTrue(t) ==
    (IF t.lt THEN 1 ELSE 0) + (IF t.eq THEN 1 ELSE 0) + (IF t.gt THEN 1 ELSE 0)

\* C2: for any two Interval (or Bed6/Bed12) records a and b, exactly one of
\* a<b, a==b, a>b holds, also when they share chromosome and start but differ
\* in end, and when their labels differ only in letter case.
C2_Trichotomy ==
    pc = "compared" => CountTrue(cmp.ab) = 1

\* C3: the less-than operator of Interval is transitive: a<b and b<c imply a<c.
C3_LtTransitive ==
    pc = "compared" => (cmp.ab.lt /\ cmp.bc.lt => cmp.ac.lt)

\* a chain a<b<c decided by the end coordinate alone, across letter case
C3_Witness ==
    /\ pc = "compared"
    /\ cmp.ab.lt /\ cmp.bc.lt /\ cmp.ac.lt
    /\ a_obj.chrom # b_obj.chrom
    /\ b_obj.chromStart = c_obj.chromStart

(***************************************************************************)
(* operations/intersect.py.  The module imports the Gtf class of           *)
(* core/gtf.py under the name GTF; the kind "Gtf" stands for it.  A call   *)
(* returns "True" or "False", or raises ("TypeError", "AttributeError").   *)
(***************************************************************************)
PyBool(v) == IF v THEN "True" ELSE "False"

\* check_stranded: raises AttributeError when the object has no strand
check_stranded(gobj) == IF HasStrand(gobj) THEN "None" ELSE "AttributeError"

\* a variant of intersect_BEDtoBED with the boundary test of the draft
\* Bed6.__intersect__ (bed/bed6.py): < where <= is needed
intersect_BEDtoBED_DraftBoundary(gobjA, gobjB, strand_aware) ==
    IF strand_aware /\ gobjA.strand # gobjB.strand THEN FALSE
    ELSE IF gobjA.chrom # gobjB.chrom THEN TRUE
    ELSE ~ \/ gobjB.chromEnd < gobjA.chromStart
           \/ gobjB.chromStart >= gobjA.chromEnd

intersect_BEDtoBED(gobjA, gobjB, strand_aware) ==
    IF strand_aware /\ gobjA.strand # gobjB.strand THEN FALSE
    ELSE IF gobjA.chrom # gobjB.chrom THEN TRUE
    ELSE ~ \/ gobjB.chromEnd <= gobjA.chromStart
           \/ gobjB.chromStart >= gobjA.chromEnd

intersect_GTFtoGTF(gobjA, gobjB, strand_aware) ==
    IF strand_aware /\ gobjA.strand # gobjB.strand THEN FALSE
    ELSE ~ \/ gobjB.chromEnd < gobjA.chromStart
           \/ gobjB.chromStart > gobjA.chromEnd

intersect_BEDtoGTF(gobjA, gobjB, strand_aware) ==
    IF strand_aware /\ gobjA.strand # gobjB.strand THEN FALSE
    ELSE ~ \/ gobjB.chromEnd < gobjA.chromStart
           \/ gobjB.chromStart >= gobjA.chromEnd

\* intersect: the strand check, then dispatch on the exact types; the fourth
\* branch repeats the condition of the third and is never taken
intersect(a, b, strand_aware) ==
    IF strand_aware /\ check_stranded(a) = "AttributeError" THEN "AttributeError"
    ELSE IF strand_aware /\ check_stranded(b) = "AttributeError" THEN "AttributeError"
    ELSE IF a.kind = "Interval" /\ b.kind = "Interval"
         THEN PyBool(intersect_BEDtoBED(a, b, strand_aware))
    ELSE IF a.kind = "Gtf" /\ b.kind = "Gtf"
         THEN PyBool(intersect_GTFtoGTF(a, b, strand_aware))
    ELSE IF a.kind = "Interval" /\ b.kind = "Gtf"
         THEN PyBool(intersect_BEDtoGTF(a, b, strand_aware))
    ELSE IF a.kind = "Interval" /\ b.kind = "Gtf"
         THEN PyBool(intersect_BEDtoGTF(b, a, strand_aware))
    ELSE "TypeError"

(***************************************************************************)
(* Intersect experiments: three contiguous records are constructed, then   *)
(* intersect is called on every ordered pair, with and without strand      *)
(* awareness.                                                              *)
(***************************************************************************)
\* operands of the intersect experiments: every contiguous kind
IntRecs == Intervals(Chroms) \cup Bed6s(Chroms) \cup Bed12s(Chroms) \cup Gtfs(Chroms)

Intersect2(x, y) == [u |-> intersect(x, y, FALSE), s |-> intersect(x, y, TRUE)]

InitInt ==
    /\ pc = "constructed"
    /\ a_obj \in IntRecs /\ b_obj \in IntRecs /\ c_obj \in IntRecs
    /\ cmp = NoCmps
    /\ res = <<>>
    /\ interval_list = <<>> /\ interval_list_sorted = FALSE
    /\ binCount = 0 /\ subnodes = 0 /\ map = <<>>
    /\ query = NoRec /\ hits = NoHits
    /\ IdleRebuild /\ IdleKey /\ IdleAttr

Intersect ==
    /\ pc = "constructed"
    /\ pc' = "intersected"
    /\ res' = [ab |-> Intersect2(a_obj, b_obj), ba |-> Intersect2(b_obj, a_obj),
               ac |-> Intersect2(a_obj, c_obj), ca |-> Intersect2(c_obj, a_obj),
               bc |-> Intersect2(b_obj, c_obj), cb |-> Intersect2(c_obj, b_obj)]
    /\ UNCHANGED <<a_obj, b_obj, c_obj, cmp, interval_list,
                   interval_list_sorted, binCount, subnodes, map, query, hits>>
    /\ UNCHANGED <<snapshot, rebuildVars, keyVars, attrVars>>

NextInt == Intersect

SpecInt == InitInt /\ [][NextInt]_vars

\* the overlap rule of the closed representation
ClosedOverlap(x, y) ==
    ~ (x.zero_idx_end < y.zero_idx_start \/ x.zero_idx_start > y.zero_idx_end)

\* C4: without strand awareness intersects is symmetric for every mix of
\* Interval and Gtf operands: intersects(a, b, false) and intersects(b, a, false)
\* give the same outcome.
C4_Symmetric ==
    (pc = "intersected" /\ {a_obj.kind, b_obj.kind} \subseteq {"Interval", "Gtf"})
        => res.ab.u = res.ba.u

\* C5: records on different chromosomes never overlap, for every supported
\* pair of kinds (Interval-Interval, Gtf-Gtf, Interval-Gtf).
C5_DifferentChromNeverOverlap ==
    (/\ pc = "intersected"
     /\ a_obj.chrom # b_obj.chrom
     /\ \/ a_obj.kind = "Interval" /\ b_obj.kind \in {"Interval", "Gtf"}
        \/ a_obj.kind = "Gtf" /\ b_obj.kind = "Gtf")
        => res.ab.u = "False"

\* C6: two Interval records on one chromosome (start < end) intersect exactly
\* when their closed spans [start, end - 1] overlap: sharing one base is an
\* overlap, end = start of the other is not.
C6_HalfOpenOverlap ==
    (/\ pc = "intersected"
     /\ a_obj.kind = "Interval" /\ b_obj.kind = "Interval"
     /\ a_obj.chrom = b_obj.chrom)
        => res.ab.u = PyBool(ClosedOverlap(a_obj, b_obj))

\* a shares exactly its last base with b, and c starts where a ends
C6_Witness ==
    /\ pc = "intersected"
    /\ a_obj.kind = "Interval" /\ b_obj.kind = "Interval" /\ c_obj.kind = "Interval"
    /\ a_obj.chrom = b_obj.chrom /\ a_obj.chrom = c_obj.chrom
    /\ b_obj.chromStart = a_obj.chromEnd - 1 /\ res.ab.u = "True"
    /\ c_obj.chromStart = a_obj.chromEnd /\ res.ac.u = "False"

\* C7: a Gtf record a and an Interval b of the same span (same chrom,
\* a.start = b.start + 1, a.end = b.end) are interchangeable: against every
\* third record c, in either argument order, one intersects iff the other does.
C7_ConventionConsistent ==
    (/\ pc = "intersected"
     /\ a_obj.kind = "Gtf" /\ b_obj.kind = "Interval"
     /\ a_obj.chrom = b_obj.chrom
     /\ a_obj.chromStart = b_obj.chromStart + 1
     /\ a_obj.chromEnd = b_obj.chromEnd)
        => /\ (res.ac.u = "True") <=> (res.bc.u = "True")
           /\ (res.ca.u = "True") <=> (res.cb.u = "True")

\* C8: intersects(a, b, false) returns a boolean for every pair of operands
\* of the contiguous kinds Interval, Bed6, Bed12, Gtf.
C8_TotalOnContiguous ==
    pc = "intersected" => res.ab.u \in {"True", "False"}

\* C9: strand-aware, with both operands carrying a strand: false when the
\* strands differ, otherwise the result of the strand-unaware call.
C9_StrandGate ==
    (pc = "intersected" /\ HasStrand(a_obj) /\ HasStrand(b_obj))
        => IF a_obj.strand # b_obj.strand
           THEN res.ab.s = "False"
           ELSE res.ab.s = res.ab.u

(***************************************************************************)
(* core/intervalmap.py: IntervalNode and IntervalMap.                      *)
(***************************************************************************)
\* the position at which list.sort places x in the sorted list s: after every
\* item x is not less than (the sort is stable)
RECURSIVE InsertPos(_, _, _)
InsertPos(s, x, i) ==
    IF i > Len(s) \/ OpLt(x, s[i]) THEN i ELSE InsertPos(s, x, i + 1)

\* sorted(): a stable sort that compares with <
RECURSIVE sorted(_)
sorted(s) ==
    IF Len(s) = 0 THEN <<>>
    ELSE LET init == sorted(SubSeq(s, 1, Len(s) - 1))
             x == s[Len(s)]
             i == InsertPos(init, x, 1)
         IN  SubSeq(init, 1, i - 1) \o <<x>> \o SubSeq(init, i, Len(init))

\* max() of a non-empty set of integers
Max(S) == CHOOSE m \in S : \A n \in S : n <= m

\* the bounds _set_bounds assigns once the node's list ivs is sorted
with_bounds(chrom, ivs) ==
    [chrom |-> chrom, intervals |-> ivs,
     zero_idx_start |-> ivs[1].zero_idx_start,
     zero_idx_end |-> Max({ivs[i].zero_idx_end : i \in 1..Len(ivs)})]

\* IntervalNode._set_bounds
set_bounds(node, isSorted) ==
    with_bounds(node.chrom,
                IF isSorted THEN node.intervals ELSE sorted(node.intervals))

\* IntervalNode.__init__
IntervalNode(chrom, intervals, isSorted) ==
    set_bounds([chrom |-> chrom, intervals |-> intervals,
                zero_idx_start |-> 0, zero_idx_end |-> 0], isSorted)

\* the keys of the chromosome level map, in order of first appearance
RECURSIVE ChromKeys(_)
ChromKeys(ilist) ==
    IF Len(ilist) = 0 THEN <<>>
    ELSE LET init == ChromKeys(SubSeq(ilist, 1, Len(ilist) - 1))
             ch == ilist[Len(ilist)].chrom
         IN  IF \E i \in 1..Len(init) : init[i] = ch THEN init ELSE Append(init, ch)

\* the list the chromosome level map holds for one chromosome
ChromList(ilist, chrom) == SelectSeq(ilist, LAMBDA i : i.chrom = chrom)

\* the number of bins used for a chromosome of n records when self.subnodes is sn
SubnodesAfter(n, sn) == IF n \div sn < 1 THEN n ELSE sn

\* a variant of ChromBins that forgets the records left over after the last bin
ChromBins_DropRest(chrom, clist, sn) ==
    LET n == Len(clist)
        sn2 == SubnodesAfter(n, sn)
        intervals_per_node == IF n \div sn < 1 THEN 1 ELSE n \div sn
    IN  [bin_num \in 1..sn2 |->
            IntervalNode(chrom,
                         SubSeq(clist, (bin_num - 1) * intervals_per_node + 1,
                                bin_num * intervals_per_node),
                         TRUE)]

\* the bins of one chromosome (the body of the second loop of create_map)
ChromBins(chrom, clist, sn) ==
    LET n == Len(clist)
        sn2 == SubnodesAfter(n, sn)
        intervals_per_node == IF n \div sn < 1 THEN 1 ELSE n \div sn
        bins == [bin_num \in 1..sn2 |->
                    IntervalNode(chrom,
                                 SubSeq(clist, (bin_num - 1) * intervals_per_node + 1,
                                        bin_num * intervals_per_node),
                                 TRUE)]
        rest == SubSeq(clist, sn2 * intervals_per_node + 1, n)
    IN  IF Len(rest) > 0
        THEN [bins EXCEPT ![sn2] =
                 set_bounds([@ EXCEPT !.intervals = @ \o rest], TRUE)]
        ELSE bins

\* the second loop of create_map: the chromosomes in key order; self.subnodes,
\* once shrunk, stays shrunk for the chromosomes that follow
RECURSIVE BinAll(_, _, _)
BinAll(keys, ilist, sn) ==
    IF Len(keys) = 0 THEN [map |-> <<>>, subnodes |-> sn]
    ELSE LET clist == ChromList(ilist, keys[1])
             tl == BinAll(Tail(keys), ilist, SubnodesAfter(Len(clist), sn))
         IN  [map |-> <<[chrom |-> keys[1], bins |-> ChromBins(keys[1], clist, sn)]>>
                      \o tl.map,
              subnodes |-> tl.subnodes]

\* create_map after its sort: the two loops over the (sorted) list
bin_sorted(ilist, sn) == BinAll(ChromKeys(ilist), ilist, sn)

\* a variant of create_map that never sorts
create_map_NoSort(ilist0, isSorted, sn) ==
    bin_sorted(ilist0, sn)

\* IntervalMap.create_map
create_map(ilist0, isSorted, sn) ==
    bin_sorted(IF ~isSorted THEN sorted(ilist0) ELSE ilist0, sn)

(***************************************************************************)
(* create_map on list objects.  A heap is a sequence of Python lists, a    *)
(* reference is a position in it; the caller's list is the object the      *)
(* constructor is handed.  Each statement of create_map either makes a new *)
(* object (sorted(), [i], a slice) or writes to an existing one (append,   *)
(* extend, sort()).                                                        *)
(***************************************************************************)
\* a variant of py_sorted that sorts the list object itself, as list.sort() does
py_sorted_InPlace(h, r) == [heap |-> [h EXCEPT ![r] = sorted(@)], ref |-> r]

\* sorted(x): a new list object
py_sorted(h, r) == [heap |-> Append(h, sorted(h[r])), ref |-> Len(h) + 1]

\* ilist = sorted(interval_list) if not isSorted else interval_list
bind_ilist(h, r, isSorted) ==
    IF ~isSorted THEN py_sorted(h, r) ELSE [heap |-> h, ref |-> r]

\* the position of chrom among the keys of self._map, 0 if it is not a key
RECURSIVE MapPos(_, _, _)
MapPos(m, chrom, i) ==
    IF i > Len(m) THEN 0
    ELSE IF m[i].chrom = chrom THEN i
    ELSE MapPos(m, chrom, i + 1)

\* the first loop, from item j of ilist on: a new key gets the new list [i],
\* a known key has i appended to its list
RECURSIVE first_loop(_, _, _, _)
first_loop(h, ilist, j, m) ==
    IF j > Len(h[ilist]) THEN [heap |-> h, map |-> m]
    ELSE IF MapPos(m, h[ilist][j].chrom, 1) = 0
         THEN first_loop(Append(h, <<h[ilist][j]>>), ilist, j + 1,
                         Append(m, [chrom |-> h[ilist][j].chrom, ref |-> Len(h) + 1]))
    ELSE first_loop([h EXCEPT ![m[MapPos(m, h[ilist][j].chrom, 1)].ref] =
                                   Append(@, h[ilist][j])],
                    ilist, j + 1, m)

\* IntervalNode._set_bounds on the node's list object: sorted in place unless
\* isSorted
node_set_bounds(h, r, isSorted) ==
    IF ~isSorted THEN [h EXCEPT ![r] = sorted(@)] ELSE h

\* the loop over range(self.subnodes), `left` rounds to go: the node gets the
\* slice clist[:intervals_per_node], clist is rebound to the slice of the rest
RECURSIVE bin_loop(_, _, _, _, _)
bin_loop(h, clist, intervals_per_node, left, bins) ==
    IF left = 0 THEN [heap |-> h, clist |-> clist, bins |-> bins]
    ELSE bin_loop(node_set_bounds(Append(h, SubSeq(h[clist], 1, intervals_per_node)),
                                  Len(h) + 1, TRUE)
                      \o <<SubSeq(h[clist], intervals_per_node + 1, Len(h[clist]))>>,
                  Len(h) + 2, intervals_per_node, left - 1,
                  Append(bins, Len(h) + 1))

\* bins[-1].intervals.extend(clist); bins[-1]._set_bounds(isSorted=True)
extend_last(st) ==
    IF Len(st.heap[st.clist]) > 0
    THEN [heap |-> node_set_bounds(
                       [st.heap EXCEPT ![st.bins[Len(st.bins)]] = @ \o st.heap[st.clist]],
                       st.bins[Len(st.bins)], TRUE),
          bins |-> st.bins]
    ELSE [heap |-> st.heap, bins |-> st.bins]

\* one round of the second loop, for a list of n records
bin_chrom(h, clist, n, sn) ==
    extend_last(bin_loop(h, clist, IF n \div sn < 1 THEN 1 ELSE n \div sn,
                         SubnodesAfter(n, sn), <<>>))

\* the second loop, from key k on; done holds the keys already rebound to
\* their bins
RECURSIVE second_loop(_, _, _, _, _)
second_loop(h, m, k, sn, done) ==
    IF k > Len(m) THEN [heap |-> h, map |-> done]
    ELSE second_loop(bin_chrom(h, m[k].ref, Len(h[m[k].ref]), sn).heap,
                     m, k + 1, SubnodesAfter(Len(h[m[k].ref]), sn),
                     Append(done, [chrom |-> m[k].chrom,
                                   bins |-> bin_chrom(h, m[k].ref,
                                                      Len(h[m[k].ref]), sn).bins]))

\* the two loops of create_map
run_loops(st, sn) == second_loop(st.heap, st.map, 1, sn, <<>>)

\* IntervalMap.create_map on the heap h, the caller's list being object r
create_map_heap(h, r, isSorted, sn) ==
    run_loops(first_loop(bind_ilist(h, r, isSorted).heap,
                         bind_ilist(h, r, isSorted).ref, 1, <<>>), sn)

\* the lists the map's bins refer to
DerefMap(st) ==
    [k \in 1..Len(st.map) |->
        [chrom |-> st.map[k].chrom,
         bins |-> [i \in 1..Len(st.map[k].bins) |-> st.heap[st.map[k].bins[i]]]]]

(***************************************************************************)
(* intersect_IntervalMap, the overlap query of operations/__init__.py.     *)
(***************************************************************************)
\* the scan of one bin: overlapping records are collected; the scan stops at
\* the first other record that is greater than the query
RECURSIVE ScanBin(_, _)
ScanBin(recs, q) ==
    IF Len(recs) = 0 THEN NoHits
    ELSE LET r == intersect(q, recs[1], FALSE)
             tl == ScanBin(Tail(recs), q)
         IN  IF r \notin {"True", "False"} THEN [err |-> r, recs |-> <<>>]
             ELSE IF r = "True"
                  THEN IF tl.err # "None" THEN tl
                       ELSE [err |-> "None", recs |-> <<recs[1]>> \o tl.recs]
             ELSE IF OpGt(recs[1], q) THEN NoHits
             ELSE tl

\* the scan of the candidate bins in order
RECURSIVE ScanBins(_, _)
ScanBins(bins, q) ==
    IF Len(bins) = 0 THEN NoHits
    ELSE LET candidate == ~ \/ bins[1].zero_idx_end < q.zero_idx_start
                            \/ bins[1].zero_idx_start > q.zero_idx_end
             hd == IF candidate THEN ScanBin(bins[1].intervals, q) ELSE NoHits
             tl == ScanBins(Tail(bins), q)
         IN  IF hd.err # "None" THEN hd
             ELSE IF tl.err # "None" THEN tl
             ELSE [err |-> "None", recs |-> hd.recs \o tl.recs]

intersect_IntervalMap(q, m) ==
    IF q.kind \notin {"Interval", "Bed6", "Bed12", "Gtf"}
    THEN [err |-> "TypeError", recs |-> <<>>]
    ELSE IF \E k \in 1..Len(m) : m[k].chrom = q.chrom
         THEN ScanBins(m[CHOOSE k \in 1..Len(m) : m[k].chrom = q.chrom].bins, q)
         ELSE NoHits

(***************************************************************************)
(* The index: the caller fills a list, builds an IntervalMap from it, and  *)
(* queries the map.                                                        *)
(***************************************************************************)
\* records of the collection and of the queries: the two classes that do not
\* inherit from one another, on one strand
IdxRecs ==
    Intervals(Chroms) \cup {Gtf(ch, p[1], p[2], "+") : ch \in Chroms, p \in GtfSpans}

Init ==
    /\ pc = "collect"
    /\ a_obj = NoRec /\ b_obj = NoRec /\ c_obj = NoRec
    /\ cmp = NoCmps
    /\ res = <<>>
    /\ interval_list = <<>> /\ interval_list_sorted = FALSE
    /\ binCount = 0 /\ subnodes = 0 /\ map = <<>>
    /\ query = NoRec /\ hits = NoHits
    /\ IdleRebuild /\ IdleKey /\ IdleAttr

\* the caller appends a record to its list
AppendRecord(r) ==
    /\ pc = "collect"
    /\ Len(interval_list) < MaxRecs
    /\ interval_list' = Append(interval_list, r)
    /\ UNCHANGED <<pc, a_obj, b_obj, c_obj, cmp, res, interval_list_sorted,
                   binCount, subnodes, map, query, hits>>
    /\ UNCHANGED <<snapshot, rebuildVars, keyVars, attrVars>>

\* IntervalMap(interval_list, isSorted, n); snapshot keeps the caller's list as
\* it was handed over, interval_list is the caller's list object afterwards
Build(isSorted, n) ==
    /\ pc = "collect"
    /\ pc' = "built"
    /\ interval_list_sorted' = isSorted
    /\ binCount' = n
    /\ LET m == create_map(interval_list, isSorted, n)
       IN  map' = m.map /\ subnodes' = m.subnodes
    /\ snapshot' = interval_list
    /\ interval_list' = create_map_heap(<<interval_list>>, 1, isSorted, n).heap[1]
    /\ UNCHANGED <<a_obj, b_obj, c_obj, cmp, res, query, hits>>
    /\ UNCHANGED <<rebuildVars, keyVars, attrVars>>

\* intersect_IntervalMap(q, map); the query leaves the map as it is
Query(q) ==
    /\ pc = "built"
    /\ pc' = "queried"
    /\ query' = q
    /\ hits' = intersect_IntervalMap(q, map)
    /\ UNCHANGED <<a_obj, b_obj, c_obj, cmp, res, interval_list,
                   interval_list_sorted, binCount, subnodes, map>>
    /\ UNCHANGED <<snapshot, rebuildVars, keyVars, attrVars>>

\* the orderings of n items
Perms(n) == {p \in [1..n -> 1..n] : \A i, j \in 1..n : p[i] = p[j] => i = j}

\* the items of s from position i on, in the order p
RECURSIVE Reorder(_, _, _)
Reorder(s, p, i) ==
    IF i > Len(s) THEN <<>> ELSE <<s[p[i]]>> \o Reorder(s, p, i + 1)

\* the caller takes the same records in another order, sorts them itself and
\* builds a second IntervalMap from the sorted list, declared sorted, with the
\* same requested number of bins
Rebuild(p) ==
    /\ pc = "built"
    /\ pc' = "rebuilt"
    /\ \E C \in {Reorder(interval_list, p, 1)} :
           /\ list2' = C
           /\ \E S \in {sorted(C)} : map2' = create_map(S, TRUE, binCount).map
    /\ UNCHANGED <<a_obj, b_obj, c_obj, cmp, res, interval_list,
                   interval_list_sorted, binCount, subnodes, map, query, hits>>
    /\ UNCHANGED <<snapshot, keyVars, attrVars>>

Next ==
    \/ \E r \in IdxRecs : AppendRecord(r)
    \/ \E isSorted \in BOOLEAN, n \in 1..MaxSubnodes : Build(isSorted, n)
    \/ \E q \in IdxRecs : Query(q)
    \/ \E p \in Perms(Len(interval_list)) : Rebuild(p)

Spec == Init /\ [][Next]_vars

\* the items of a list, as a set
Items(s) == {s[i] : i \in 1..Len(s)}

\* the list is in ascending order under <
IsSorted(s) == \A i \in 1..Len(s), j \in 1..Len(s) : i < j => ~OpLt(s[j], s[i])

\* C1: the records a query returns are, as a set, exactly the records of the
\* collection that intersect the query (the collection being sorted when it
\* was declared sorted).
C1_QueryExact ==
    (pc = "queried" /\ (interval_list_sorted => IsSorted(interval_list)))
        => /\ hits.err = "None"
           /\ Items(hits.recs) =
                  {r \in Items(interval_list) : intersect(query, r, FALSE) = "True"}

\* C10: a chromosome holding n >= binCount records gets exactly binCount
\* bins, the first binCount - 1 of floor(n / binCount) records and the last of
\* floor(n / binCount) + (n mod binCount), whatever else the collection holds.
C10_BinSizes ==
    pc \in {"built", "queried"} =>
        \A k \in 1..Len(map) :
            LET n == Len(ChromList(interval_list, map[k].chrom))
                bins == map[k].bins
            IN  n >= binCount =>
                    /\ Len(bins) = binCount
                    /\ \A i \in 1..Len(bins) :
                           Len(bins[i].intervals) =
                               IF i < binCount THEN n \div binCount
                               ELSE (n \div binCount) + (n % binCount)

(***************************************************************************)
(* Properties of the built map.                                            *)
(***************************************************************************)
Built == pc \in {"built", "queried", "rebuilt"}

\* the caller kept its promise: a list declared sorted is sorted
SortedAsDeclared == interval_list_sorted => IsSorted(interval_list)

\* C11: a chromosome holding n < binCount records gets exactly n bins of one
\* record each.
C11_ShrinkToOnePerBin ==
    Built =>
        \A k \in 1..Len(map) :
            LET n == Len(ChromList(interval_list, map[k].chrom))
                bins == map[k].bins
            IN  n < binCount =>
                    /\ Len(bins) = n
                    /\ \A i \in 1..Len(bins) : Len(bins[i].intervals) = 1

\* C12: building from any ordering of a collection with alreadySorted = false
\* and building from the sorted collection with alreadySorted = true give the
\* same map (same chromosome key order, same bins).
C12_OrderIndependent ==
    (pc = "rebuilt" /\ ~interval_list_sorted) => map = map2

\* no two different records of the list tie under <
NoTies(s) ==
    \A i \in 1..Len(s), j \in 1..Len(s) :
        s[i] # s[j] => (OpLt(s[i], s[j]) \/ OpLt(s[j], s[i]))

\* C12, amended: the two builds give the same map when no two different
\* records of the collection tie under < (tied records keep their input
\* order, the sort being stable).
C12_OrderIndependentUpToTies ==
    (pc = "rebuilt" /\ ~interval_list_sorted /\ NoTies(interval_list))
        => map = map2

\* two orderings of three untied records, the first one unsorted, two bins
C12_Witness ==
    /\ pc = "rebuilt" /\ ~interval_list_sorted
    /\ Len(interval_list) = MaxRecs
    /\ list2 # interval_list
    /\ NoTies(interval_list)
    /\ ~IsSorted(interval_list)
    /\ \E k \in 1..Len(map) : Len(map[k].bins) > 1
    /\ map = map2

\* min() of a non-empty set of integers
Min(S) == CHOOSE m \in S : \A n \in S : m <= n

\* C16: every bin has boundStart = the least inclusive start and boundEnd =
\* the greatest inclusive end of the records it holds, also the last bin after
\* the remainder was appended and bins that mix Interval and Gtf records.
C16_BinBounds ==
    (Built /\ SortedAsDeclared) =>
        \A k \in 1..Len(map) : \A i \in 1..Len(map[k].bins) :
            LET node == map[k].bins[i]
                ivs == node.intervals
            IN  /\ node.zero_idx_start =
                       Min({ivs[j].zero_idx_start : j \in 1..Len(ivs)})
                /\ node.zero_idx_end =
                       Max({ivs[j].zero_idx_end : j \in 1..Len(ivs)})

\* the records of the bins of one chromosome, in map order
RECURSIVE Concat(_)
Concat(bins) ==
    IF Len(bins) = 0 THEN <<>> ELSE bins[1].intervals \o Concat(Tail(bins))

\* how often r occurs in the list
Count(s, r) == Cardinality({i \in 1..Len(s) : s[i] = r})

\* C19: build partitions without loss or duplication: per chromosome the bins,
\* concatenated, hold exactly that chromosome's records, in sorted order;
\* every bin is non-empty and holds only records of its map key; the keys are
\* the chromosomes of the input (none for an empty input).
C19_Partition ==
    Built =>
        /\ {map[k].chrom : k \in 1..Len(map)} =
               {interval_list[i].chrom : i \in 1..Len(interval_list)}
        /\ \A k \in 1..Len(map), l \in 1..Len(map) :
               map[k].chrom = map[l].chrom => k = l
        /\ \A k \in 1..Len(map) :
               LET cat == Concat(map[k].bins)
                   own == ChromList(interval_list, map[k].chrom)
               IN  /\ \A i \in 1..Len(map[k].bins) :
                          /\ Len(map[k].bins[i].intervals) >= 1
                          /\ map[k].bins[i].chrom = map[k].chrom
                   /\ \A j \in 1..Len(cat) : cat[j].chrom = map[k].chrom
                   /\ \A r \in Items(cat) \cup Items(own) :
                          Count(cat, r) = Count(own, r)
                   /\ SortedAsDeclared => IsSorted(cat)

\* an unsorted list whose chromosome gets two bins, the last one with the
\* remainder
C19_Witness ==
    /\ pc = "built" /\ ~interval_list_sorted
    /\ ~IsSorted(interval_list)
    /\ Len(map) = 1
    /\ Len(map[1].bins) = 2
    /\ Len(map[1].bins[1].intervals) = 1
    /\ Len(map[1].bins[2].intervals) = 2

(***************************************************************************)
(* Bedpe: a pair of Bed6 halves.                                           *)
(***************************************************************************)
\* min([x, y]): the first item unless the second is less
min2(x, y) == IF OpLt(y, x) THEN y ELSE x
\* max([x, y]): the first item unless the second is greater
max2(x, y) == IF OpGt(y, x) THEN y ELSE x

\* Bedpe.__post_init__
Bedpe(bed1, bed2) ==
    [kind |-> "Bedpe", bed1 |-> bed1, bed2 |-> bed2,
     first_bed |-> min2(bed1, bed2), second_bed |-> max2(bed1, bed2)]

\* a variant of Bedpe_eq that knows one orientation only
Bedpe_eq_OneOrientation(self, other) ==
    OpEq(self.bed1, other.bed1) /\ OpEq(self.bed2, other.bed2)

\* Bedpe.__eq__
Bedpe_eq(self, other) ==
    \/ OpEq(self.bed1, other.bed1) /\ OpEq(self.bed2, other.bed2)
    \/ OpEq(self.bed1, other.bed2) /\ OpEq(self.bed2, other.bed1)

\* Bedpe.__lt__
Bedpe_lt(self, other) ==
    IF lt(prep_chrom_comp(self.first_bed.chrom),
          prep_chrom_comp(other.first_bed.chrom)) THEN TRUE
    ELSE IF gt(prep_chrom_comp(self.first_bed.chrom),
               prep_chrom_comp(other.first_bed.chrom)) THEN FALSE
    ELSE \/ OpLt(self.first_bed, other.first_bed)
         \/ /\ OpEq(self.first_bed, other.first_bed)
            /\ OpLt(self.second_bed, other.second_bed)

\* Bedpe.__gt__
Bedpe_gt(self, other) ==
    IF lt(prep_chrom_comp(self.first_bed.chrom),
          prep_chrom_comp(other.first_bed.chrom)) THEN FALSE
    ELSE IF gt(prep_chrom_comp(self.first_bed.chrom),
               prep_chrom_comp(other.first_bed.chrom)) THEN TRUE
    ELSE \/ OpGt(self.first_bed, other.first_bed)
         \/ /\ OpEq(self.first_bed, other.first_bed)
            /\ OpGt(self.second_bed, other.second_bed)

ComparePe3(x, y) ==
    [lt |-> Bedpe_lt(x, y), eq |-> Bedpe_eq(x, y), gt |-> Bedpe_gt(x, y)]

\* the halves: Bed6 records on three labels, two of them equal up to case
PeChroms == {chr1, CHR1, chr2}
PeHalves == {Bed6(ch, p[1], p[2], "+") : ch \in PeChroms, p \in BedSpans}
Bedpes == {Bedpe(h1, h2) : h1 \in PeHalves, h2 \in PeHalves}

\* two Bedpe records have been constructed
InitPe ==
    /\ pc = "constructed"
    /\ a_obj \in Bedpes /\ b_obj \in Bedpes /\ c_obj = NoRec
    /\ cmp = NoCmps
    /\ res = <<>>
    /\ interval_list = <<>> /\ interval_list_sorted = FALSE
    /\ binCount = 0 /\ subnodes = 0 /\ map = <<>>
    /\ query = NoRec /\ hits = NoHits
    /\ IdleRebuild /\ IdleKey /\ IdleAttr

\* a third Bedpe is constructed from the halves of the first one, swapped, and
\* the records are compared
ComparePe ==
    /\ pc = "constructed"
    /\ pc' = "compared"
    /\ \E c \in {Bedpe(a_obj.bed2, a_obj.bed1)} :
           /\ c_obj' = c
           /\ cmp' = [ab |-> ComparePe3(a_obj, b_obj),
                      bc |-> ComparePe3(b_obj, c),
                      ac |-> ComparePe3(a_obj, c),
                      ba |-> ComparePe3(b_obj, a_obj)]
    /\ UNCHANGED <<a_obj, b_obj, res, interval_list,
                   interval_list_sorted, binCount, subnodes, map, query, hits>>
    /\ UNCHANGED <<snapshot, rebuildVars, keyVars, attrVars>>

NextPe == ComparePe

SpecPe == InitPe /\ [][NextPe]_vars

\* the two halves agree on chrom, start and end
SamePlace(h, g) ==
    h.chrom = g.chrom /\ h.chromStart = g.chromStart /\ h.chromEnd = g.chromEnd

\* C13: a Bedpe built from (A, B) equals the Bedpe built from (B, A), and two
\* Bedpe records are equal only if their halves match on chrom, start and end
\* in one of the two orientations.
C13_BedpeEqUnordered ==
    pc = "compared" =>
        /\ cmp.ac.eq
        /\ cmp.ab.eq =>
               \/ SamePlace(a_obj.bed1, b_obj.bed1) /\ SamePlace(a_obj.bed2, b_obj.bed2)
               \/ SamePlace(a_obj.bed1, b_obj.bed2) /\ SamePlace(a_obj.bed2, b_obj.bed1)

\* the first record has two different halves and equals the second one in the
\* swapped orientation only
C13_Witness ==
    /\ pc = "compared"
    /\ ~SamePlace(a_obj.bed1, a_obj.bed2)
    /\ c_obj.bed1 = a_obj.bed2 /\ c_obj.bed2 = a_obj.bed1
    /\ cmp.ac.eq
    /\ cmp.ab.eq
    /\ ~SamePlace(a_obj.bed1, b_obj.bed1)

\* the Interval order of the specification: chromosome key, then start, then end
PlaceLt(h, g) ==
    \/ lt(prep_chrom_comp(h.chrom), prep_chrom_comp(g.chrom))
    \/ /\ prep_chrom_comp(h.chrom) = prep_chrom_comp(g.chrom)
       /\ \/ h.chromStart < g.chromStart
          \/ h.chromStart = g.chromStart /\ h.chromEnd < g.chromEnd

\* first_bed is the lesser and second_bed the greater half of the record
FirstSecond(x) ==
    /\ x.first_bed \in {x.bed1, x.bed2}
    /\ x.second_bed \in {x.bed1, x.bed2}
    /\ ~PlaceLt(x.second_bed, x.first_bed)
    /\ (PlaceLt(x.bed1, x.bed2) \/ PlaceLt(x.bed2, x.bed1)) =>
           /\ x.first_bed # x.second_bed
           /\ PlaceLt(x.first_bed, x.second_bed)

\* C17: for every constructed Bedpe, first_bed is the lesser and second_bed
\* the greater of its two halves under the Interval order; when the halves
\* differ in position, first_bed and second_bed are different halves.
C17_FirstSecondBed ==
    pc = "compared" => FirstSecond(a_obj) /\ FirstSecond(b_obj) /\ FirstSecond(c_obj)

(***************************************************************************)
(* Comparison experiments on Gtf records.                                  *)
(***************************************************************************)
\* Gtf operands (strand is not compared, one strand suffices)
GtfRecs == {Gtf(ch, p[1], p[2], "+") : ch \in OrdChroms, p \in GtfSpans}

InitGtf ==
    /\ pc = "constructed"
    /\ a_obj \in GtfRecs /\ b_obj \in GtfRecs /\ c_obj \in GtfRecs
    /\ cmp = NoCmps
    /\ res = <<>>
    /\ interval_list = <<>> /\ interval_list_sorted = FALSE
    /\ binCount = 0 /\ subnodes = 0 /\ map = <<>>
    /\ query = NoRec /\ hits = NoHits
    /\ IdleRebuild /\ IdleKey /\ IdleAttr

NextGtf == Compare

SpecGtf == InitGtf /\ [][NextGtf]_vars

\* C18: Gtf greater-than follows the documented order: for all Gtf records a
\* and b, a > b holds iff b < a holds, in particular when a and b share
\* chromosome and start and a.end > b.end.
C18_GtfGtMirrorsLt ==
    pc = "compared" => (cmp.ab.gt <=> cmp.ba.lt)

(***************************************************************************)
(* The chromosome ordering key on its own: two labels are keyed and the    *)
(* keys are compared, as Interval.__lt__ and __gt__ do first.              *)
(***************************************************************************)
MaxLabel == 3

chrX == <<"c", "h", "r", "X">>
chrY == <<"c", "h", "r", "Y">>

\* characters of the generated labels: letters in both cases, ASCII digits and
\* a digit outside [0-9]
KeyChars == {"c", "C", "1", "2", "U+0663"}

\* the labels: the usual names and every string of at most MaxLabel characters
Labels ==
    {chr1, CHR1, chr2, chr10, chrX, chrY}
        \cup UNION {[1..n -> KeyChars] : n \in 0..MaxLabel}

InitKey ==
    /\ pc = "labels"
    /\ chromA \in Labels /\ chromB \in Labels
    /\ keycmp = NoKeys
    /\ a_obj = NoRec /\ b_obj = NoRec /\ c_obj = NoRec
    /\ cmp = NoCmps
    /\ res = <<>>
    /\ interval_list = <<>> /\ interval_list_sorted = FALSE
    /\ binCount = 0 /\ subnodes = 0 /\ map = <<>>
    /\ query = NoRec /\ hits = NoHits
    /\ IdleRebuild /\ IdleAttr

\* lt(*[prep_chrom_comp(c) for c in [chromA, chromB]]) and gt(...) of the same
KeyCompare ==
    /\ pc = "labels"
    /\ pc' = "keyed"
    /\ \E kA \in {prep_chrom_comp(chromA)}, kB \in {prep_chrom_comp(chromB)} :
           keycmp' = [keyA |-> kA, keyB |-> kB,
                      raises |-> ListLtRaises(kA, kB),
                      lt |-> ~ListLtRaises(kA, kB) /\ lt(kA, kB),
                      gt |-> ~ListLtRaises(kA, kB) /\ gt(kA, kB),
                      eq |-> kA = kB]
    /\ UNCHANGED <<a_obj, b_obj, c_obj, cmp, res, interval_list,
                   interval_list_sorted, binCount, subnodes, map, query, hits>>
    /\ UNCHANGED <<snapshot, rebuildVars, attrVars, chromA, chromB>>

NextKey == KeyCompare

SpecKey == InitKey /\ [][NextKey]_vars

\* the label is letters followed by a non-empty run of [0-9]
NameNumber(s) ==
    /\ \A i \in 1..Len(s) : s[i] # "U+0663"
    /\ RunLen(s, FALSE) < Len(s)
    /\ \A i \in (RunLen(s, FALSE) + 1)..Len(s) : ReDigit(s[i])
NamePart(s) == SubSeq(s, 1, RunLen(s, FALSE))
NumberPart(s) == SubSeq(s, RunLen(s, FALSE) + 1, Len(s))

\* the number a string of [0-9] denotes
RECURSIVE Decimal(_)
Decimal(s) ==
    IF Len(s) = 0 THEN 0
    ELSE 10 * Decimal(SubSeq(s, 1, Len(s) - 1))
         + (CASE s[Len(s)] = "0" -> 0 [] s[Len(s)] = "1" -> 1 [] s[Len(s)] = "2" -> 2)

\* C14: the chromosome ordering key gives natural sort: digit runs compare
\* numerically and non-digit runs compare case-insensitively, so
\* key("chr2") < key("chr10"), key("chrX") < key("chrY") and
\* key("chr1") = key("CHR1").
C14_NaturalSortKey ==
    pc = "keyed" =>
        /\ (chromA = chr2 /\ chromB = chr10) => (keycmp.lt /\ ~keycmp.gt)
        /\ (chromA = chrX /\ chromB = chrY) => (keycmp.lt /\ ~keycmp.gt)
        /\ (chromA = chr1 /\ chromB = CHR1) => keycmp.eq
        /\ Lower(chromA) = Lower(chromB) => keycmp.eq
        /\ (/\ NameNumber(chromA) /\ NameNumber(chromB)
            /\ Lower(NamePart(chromA)) = Lower(NamePart(chromB))) =>
               /\ keycmp.lt <=> Decimal(NumberPart(chromA)) < Decimal(NumberPart(chromB))
               /\ keycmp.gt <=> Decimal(NumberPart(chromA)) > Decimal(NumberPart(chromB))
               /\ ~keycmp.raises

\* chr2 against chr10: the digit runs decide, 2 < 10
C14_Witness ==
    /\ pc = "keyed"
    /\ chromA = chr2 /\ chromB = chr10
    /\ keycmp.lt /\ ~keycmp.gt /\ ~keycmp.eq

\* the key starts with a text token and alternates text and numeric tokens
Alternates(k) ==
    /\ Len(k) >= 1
    /\ \A i \in 1..Len(k) : k[i].num <=> (i % 2 = 0)

\* C20: comparing the ordering keys of any two labels never fails: every key
\* starts with a text token and strictly alternates text and numeric tokens,
\* so < and > on keys are defined for every pair of labels.
C20_KeyComparisonTotal ==
    pc = "keyed" =>
        /\ Alternates(keycmp.keyA) /\ Alternates(keycmp.keyB)
        /\ ~keycmp.raises

(***************************************************************************)
(* The attribute string of a Gtf record.  The string is a sequence of      *)
(* one-character strings; Gtf.__post_init__ parses it into attr_dict, here *)
(* the sequence of the dictionary's items in insertion order.              *)
(***************************************************************************)
\* largest number of key "value" pairs in a generated attribute string
MaxPairs == 3

\* the position of the first "; " in s at or after i, 0 if there is none
RECURSIVE FindSep(_, _)
FindSep(s, i) ==
    IF i + 1 > Len(s) THEN 0
    ELSE IF s[i] = ";" /\ s[i + 1] = " " THEN i
    ELSE FindSep(s, i + 1)

\* str.split("; ")
RECURSIVE split_sep(_)
split_sep(s) ==
    IF FindSep(s, 1) = 0 THEN <<s>>
    ELSE <<SubSeq(s, 1, FindSep(s, 1) - 1)>>
         \o split_sep(SubSeq(s, FindSep(s, 1) + 2, Len(s)))

\* str.strip(ch)
RECURSIVE strip(_, _)
strip(s, ch) ==
    IF Len(s) = 0 THEN s
    ELSE IF s[1] = ch THEN strip(Tail(s), ch)
    ELSE IF s[Len(s)] = ch THEN strip(SubSeq(s, 1, Len(s) - 1), ch)
    ELSE s

\* length of the longest prefix of s made of blanks (blank) or of other characters
RECURSIVE WordLen(_, _)
WordLen(s, blank) ==
    IF Len(s) = 0 \/ (s[1] = " ") # blank THEN 0
    ELSE 1 + WordLen(Tail(s), blank)

\* str.split(): the words between runs of whitespace
RECURSIVE split_ws(_)
split_ws(s) ==
    IF WordLen(s, TRUE) > 0 THEN split_ws(SubSeq(s, WordLen(s, TRUE) + 1, Len(s)))
    ELSE IF Len(s) = 0 THEN <<>>
    ELSE <<SubSeq(s, 1, WordLen(s, FALSE))>>
         \o split_ws(SubSeq(s, WordLen(s, FALSE) + 1, Len(s)))

\* the position of the first "." in s at or after i, 0 if there is none
RECURSIVE FindDot(_, _)
FindDot(s, i) ==
    IF i > Len(s) THEN 0 ELSE IF s[i] = "." THEN i ELSE FindDot(s, i + 1)

\* \d+
Digits(s) == Len(s) > 0 /\ \A i \in 1..Len(s) : IsDigitChar(s[i])

\* ((\d+(\.\d+)?)|(\.\d+)) matches the whole of s
Unsigned(s) ==
    IF FindDot(s, 1) = 0 THEN Digits(s)
    ELSE /\ Digits(SubSeq(s, FindDot(s, 1) + 1, Len(s)))
         /\ FindDot(s, 1) = 1 \/ Digits(SubSeq(s, 1, FindDot(s, 1) - 1))

HasSign(s) == Len(s) > 0 /\ s[1] \in {"+", "-"}

\* match("^[+-]?((\d+(\.\d+)?)|(\.\d+))$", string) is not None
looks_numeric(s) == Unsigned(IF HasSign(s) THEN Tail(s) ELSE s)

\* a str value and a float value of attr_dict
Text(s) == [float |-> FALSE, neg |-> FALSE, whole |-> 0, frac |-> <<>>, txt |-> s]
Float(neg, whole, frac) ==
    [float |-> TRUE, neg |-> neg, whole |-> whole, frac |-> frac, txt |-> <<>>]

\* the digits of a fraction without its trailing zeros
RECURSIVE FracDigits(_)
FracDigits(s) ==
    IF Len(s) = 0 THEN <<>>
    ELSE IF DigitVal(s[Len(s)]) = 0 THEN FracDigits(SubSeq(s, 1, Len(s) - 1))
    ELSE [i \in 1..Len(s) |-> DigitVal(s[i])]

\* float() of an unsigned string the pattern matches
float_unsigned(neg, s) ==
    IF FindDot(s, 1) = 0 THEN Float(neg, IntOf(s), <<>>)
    ELSE Float(neg, IntOf(SubSeq(s, 1, FindDot(s, 1) - 1)),
               FracDigits(SubSeq(s, FindDot(s, 1) + 1, Len(s))))

\* check_and_convert_nums
check_and_convert_nums(s) ==
    IF ~looks_numeric(s) THEN Text(s)
    ELSE IF HasSign(s) THEN float_unsigned(s[1] = "-", Tail(s))
    ELSE float_unsigned(FALSE, s)

\* the position of key k in the items, 0 if it is not a key
RECURSIVE KeyPos(_, _, _)
KeyPos(items, k, i) ==
    IF i > Len(items) THEN 0
    ELSE IF items[i].k = k THEN i
    ELSE KeyPos(items, k, i + 1)

\* a variant of dict_add in which a repeated key replaces its list
dict_add_Overwrite(items, k, v) ==
    IF KeyPos(items, k, 1) = 0 THEN Append(items, [k |-> k, v |-> <<v>>])
    ELSE [items EXCEPT ![KeyPos(items, k, 1)].v = <<v>>]

\* the body of the loop: a new key gets a one-item list, a known key has the
\* value appended to its list
dict_add(items, k, v) ==
    IF KeyPos(items, k, 1) = 0 THEN Append(items, [k |-> k, v |-> <<v>>])
    ELSE [items EXCEPT ![KeyPos(items, k, 1)].v = Append(@, v)]

\* the loop over the pairs, from an attr_dict with the given items; unpacking
\* anything but two words into k, v raises ValueError
RECURSIVE parse_pairs(_, _)
parse_pairs(pre_proc_attr, items) ==
    IF Len(pre_proc_attr) = 0 THEN [err |-> "None", items |-> items]
    ELSE IF Len(split_ws(strip(pre_proc_attr[1], ";"))) # 2
         THEN [err |-> "ValueError", items |-> <<>>]
    ELSE parse_pairs(Tail(pre_proc_attr),
                     dict_add(items,
                              strip(split_ws(strip(pre_proc_attr[1], ";"))[1], "\""),
                              check_and_convert_nums(
                                  strip(split_ws(strip(pre_proc_attr[1], ";"))[2], "\""))))

\* the attribute part of Gtf.__post_init__
parse_attributes(attrs) ==
    IF split_sep(attrs) = <<<<>>>> THEN [err |-> "None", items |-> <<>>]
    ELSE parse_pairs(split_sep(attrs), <<>>)

\* keys and values of the generated pairs
gene_id == <<"g", "e", "n", "e", "_", "i", "d">>
tag == <<"t", "a", "g">>
AttrKeys == {gene_id, tag}
AttrValues == {<<"X">>, <<"a">>, <<"b">>, <<"2">>, <<"2", ".", "1">>, <<"a", "2">>}
AttrPairs == {[k |-> k, v |-> v] : k \in AttrKeys, v \in AttrValues}
PairLists == UNION {[1..n -> AttrPairs] : n \in 0..MaxPairs}

\* the attribute text of a pair list: key "value" joined by "; ", with or
\* without the final ";"
RECURSIVE Joined(_)
Joined(ps) ==
    IF Len(ps) = 0 THEN <<>>
    ELSE ps[1].k \o <<" ", "\"">> \o ps[1].v \o <<"\"">>
         \o (IF Len(ps) = 1 THEN <<>> ELSE <<";", " ">> \o Joined(Tail(ps)))
Formatted(ps, final) == IF final /\ Len(ps) > 0 THEN Joined(ps) \o <<";">> ELSE Joined(ps)

\* texts that are not key "value" pairs
Malformed ==
    {<<";">>, gene_id, gene_id \o <<" ", "\"", "X", "\"", " ", "\"", "a", "\"">>}

\* a raw attribute string is at hand
InitAttr ==
    /\ pc = "raw"
    /\ pairs \in PairLists
    /\ attributes \in {Formatted(pairs, TRUE), Formatted(pairs, FALSE)}
                         \cup (IF pairs = <<>> THEN Malformed ELSE {})
    /\ attr_dict = NoDict
    /\ a_obj = NoRec /\ b_obj = NoRec /\ c_obj = NoRec
    /\ cmp = NoCmps
    /\ res = <<>>
    /\ interval_list = <<>> /\ interval_list_sorted = FALSE
    /\ binCount = 0 /\ subnodes = 0 /\ map = <<>>
    /\ query = NoRec /\ hits = NoHits
    /\ IdleRebuild /\ IdleKey

\* Gtf(..., attributes): the constructor builds attr_dict or raises
NewGtf ==
    /\ pc = "raw"
    /\ pc' = "parsed"
    /\ attr_dict' = parse_attributes(attributes)
    /\ UNCHANGED <<a_obj, b_obj, c_obj, cmp, res, interval_list,
                   interval_list_sorted, binCount, subnodes, map, query, hits>>
    /\ UNCHANGED <<snapshot, rebuildVars, keyVars, pairs, attributes>>

NextAttr == NewGtf

SpecAttr == InitAttr /\ [][NextAttr]_vars

\* the keys of a pair list in order of first appearance
RECURSIVE FirstKeys(_)
FirstKeys(ps) ==
    IF Len(ps) = 0 THEN <<>>
    ELSE IF \E i \in 1..(Len(ps) - 1) : ps[i].k = ps[Len(ps)].k
         THEN FirstKeys(SubSeq(ps, 1, Len(ps) - 1))
    ELSE Append(FirstKeys(SubSeq(ps, 1, Len(ps) - 1)), ps[Len(ps)].k)

\* the values of key k in order of appearance
RECURSIVE ValuesOf(_, _)
ValuesOf(ps, k) ==
    IF Len(ps) = 0 THEN <<>>
    ELSE IF ps[1].k = k THEN <<ps[1].v>> \o ValuesOf(Tail(ps), k)
    ELSE ValuesOf(Tail(ps), k)

\* attributes is the text of pairs
WellFormed == attributes \in {Formatted(pairs, TRUE), Formatted(pairs, FALSE)}

\* C15: constructing a Gtf parses its attribute string into a mapping from
\* each key to the list of its values in order of appearance: repeated keys
\* accumulate into one list, quotes and the trailing ';' are removed, and the
\* empty string gives the empty mapping.
C15_AttrDict ==
    (pc = "parsed" /\ WellFormed) =>
        /\ attr_dict.err = "None"
        /\ attr_dict.items =
               [i \in 1..Len(FirstKeys(pairs)) |->
                   [k |-> FirstKeys(pairs)[i],
                    v |-> [j \in 1..Len(ValuesOf(pairs, FirstKeys(pairs)[i])) |->
                              Text(ValuesOf(pairs, FirstKeys(pairs)[i])[j])]]]

\* what the mapping holds for a value of the generated pairs: a float for the
\* values that read as numbers, the text otherwise
Held(v) ==
    CASE v = <<"2">> -> Float(FALSE, 2, <<>>)
      [] v = <<"2", ".", "1">> -> Float(FALSE, 2, <<1>>)
      [] OTHER -> Text(v)

\* C15, amended: as C15, with every value that reads as a number (optional
\* sign, digits, optional fraction) held as a floating-point number; and the
\* example 'gene_id "X"; tag "a"; tag "b";' gives {gene_id: [X], tag: [a, b]}.
C15_AttrDictConverted ==
    (pc = "parsed" /\ WellFormed) =>
        /\ attr_dict.err = "None"
        /\ attr_dict.items =
               [i \in 1..Len(FirstKeys(pairs)) |->
                   [k |-> FirstKeys(pairs)[i],
                    v |-> [j \in 1..Len(ValuesOf(pairs, FirstKeys(pairs)[i])) |->
                              Held(ValuesOf(pairs, FirstKeys(pairs)[i])[j])]]]
        /\ attributes = <<>> => attr_dict.items = <<>>
        /\ pairs = <<[k |-> gene_id, v |-> <<"X">>], [k |-> tag, v |-> <<"a">>],
                     [k |-> tag, v |-> <<"b">>]>> =>
               attr_dict.items =
                   <<[k |-> gene_id, v |-> <<Text(<<"X">>)>>],
                     [k |-> tag, v |-> <<Text(<<"a">>), Text(<<"b">>)>>]>>

\* a repeated key between two other pairs, a number among the values, and the
\* final ";"
C15_Witness ==
    /\ pc = "parsed"
    /\ Len(pairs) = MaxPairs
    /\ attributes = Formatted(pairs, TRUE)
    /\ pairs[1].k = pairs[Len(pairs)].k /\ pairs[1].k # pairs[2].k
    /\ pairs[1].v = <<"2">>
    /\ Len(attr_dict.items) = 2
    /\ Len(attr_dict.items[1].v) = 2
    /\ attr_dict.items[1].v[1].float

(***************************************************************************)
(* The caller's list across the build.                                     *)
(***************************************************************************)
\* the record lists of the bins of the map
BinLists ==
    [k \in 1..Len(map) |->
        [chrom |-> map[k].chrom,
         bins |-> [i \in 1..Len(map[k].bins) |-> map[k].bins[i].intervals]]]

\* C21: the build leaves the caller's collection unchanged: afterwards the
\* caller's list holds the same records in the same order as before, for both
\* values of alreadySorted, also when remainder records were appended to the
\* last bin.  (The bins the list objects end up in are those of the map.)
C21_InputUnchanged ==
    Built =>
        /\ interval_list = snapshot
        /\ pc = "built" =>
               DerefMap(create_map_heap(<<snapshot>>, 1, interval_list_sorted,
                                        binCount)) = BinLists

\* the list was declared sorted, so the build works on the caller's own list
\* object, and the last bin took the remainder
C21_Witness ==
    /\ pc = "built" /\ interval_list_sorted
    /\ Len(snapshot) = 3
    /\ Len(map) = 1
    /\ Len(map[1].bins) = 2
    /\ Len(map[1].bins[2].intervals) = 2
    /\ interval_list = snapshot

====
